---- MODULE Spec2Model ----
(***************************************************************************)
(* Model of src/yolo/app.py: the Streamlit script main() and the video     *)
(* pipeline process_uploaded_video -> process_video_with_yolo ->           *)
(* encode_to_h264.  One script run is one execution of main(); the files   *)
(* on disk persist between script runs, every other value is a local of    *)
(* the run.                                                                *)
(***************************************************************************)
EXTENDS Integers, Sequences, FiniteSets

(* ------------------------------ bounds -------------------------------- *)
\* script runs (executions of main) explored
MaxRuns == 1
\* frames the decoder can return before its first failed read
MaxFrames == 2
\* detection boxes the model can report for one frame
MaxBoxes == 2

(* ------------------------- values of the model ------------------------ *)
\* class ids the model reports (results[0].boxes.cls); the first two of the
\* five classes the page lists
ClassIds == {0, 1}

\* model.names: class id -> class name
model_names == [c \in ClassIds |-> IF c = 0 THEN "Person" ELSE "Helmet"]

Classes == {model_names[c] : c \in ClassIds}

\* the box lists a frame can carry
BoxSeqs == UNION {[1..n -> ClassIds] : n \in 0..MaxBoxes}

\* CAP_PROP_FRAME_COUNT as the container reports it: it need not agree with
\* the number of frames the decoder returns, and may be 0 or negative
ReportedTotals == -1..MaxFrames

NoFrame == [pos |-> 0, cls |-> <<>>]

NoPath == [dir |-> "", uid |-> 0, suffix |-> ""]

UPLOAD_DIR == "uploads"

OUTPUT_DIR == "outputs"

\* Config.UPLOAD_DIR / f"{uid}.mp4"
InputPathOf(u) == [dir |-> UPLOAD_DIR, uid |-> u, suffix |-> ".mp4"]

\* the temp path confused with the path of the saved upload
TempPathOverUpload(u) == [dir |-> UPLOAD_DIR, uid |-> u, suffix |-> ".mp4"]

\* Config.OUTPUT_DIR / f"{uid}_temp.mp4"
TempPathOf(u) == [dir |-> OUTPUT_DIR, uid |-> u, suffix |-> "_temp.mp4"]

\* Config.OUTPUT_DIR / f"{uid}_final.mp4"
FinalPathOf(u) == [dir |-> OUTPUT_DIR, uid |-> u, suffix |-> "_final.mp4"]

AllPaths ==
  {[dir |-> d, uid |-> u, suffix |-> s] :
     d \in {UPLOAD_DIR, OUTPUT_DIR}, u \in 1..MaxRuns,
     s \in {".mp4", "_temp.mp4", "_final.mp4"}}

\* who wrote to a file
Writers == {"save_uploaded_file", "VideoWriter", "ffmpeg"}

\* the exception types the run can raise; all derive from Exception
ExceptionTypes ==
  {"OSError", "StreamlitAPIException", "RuntimeError", "FileNotFoundError"}

NoUi ==
  [success |-> FALSE, original |-> NoPath, processed |-> NoPath,
   download |-> NoPath, error |-> FALSE, footer |-> FALSE]

(* ------------------------------ state --------------------------------- *)
VARIABLES
  pc,              \* the statement main() is at
  runs,            \* script runs started
  file,            \* what st.file_uploader returns in this run
  process_btn,     \* what st.button returns in this run
  uploaded_video,  \* what render_upload_section returned
  files,           \* the disk: path -> who wrote to it
  uid, input_path, temp_path, final_path,
  stats,           \* the Counter of process_video_with_yolo
  cap_open,        \* cap is opened and not released
  out_open,        \* out is opened and not released
  total_frames, frame_id, ret, frame, results,
  reads,           \* the frames cap.read() returned, in order
  inferred,        \* the frames passed to model(), in order
  written,         \* the annotated frames passed to out.write(), in order
  calls,           \* the arguments of each progress_callback call, in order
  returned,        \* process_video_with_yolo has returned
  encoder_calls,   \* subprocess.run calls of this run
  result,          \* the tuple process_uploaded_video returned
  result_set,      \* process_uploaded_video has returned
  exc,             \* the exception raised in the try block
  ui,              \* what the page shows
  events           \* the operations of this run, in order: <<op, frame_id>>

vars ==
  <<pc, runs, file, process_btn, uploaded_video, files, uid, input_path,
    temp_path, final_path, stats, cap_open, out_open, total_frames, frame_id,
    ret, frame, results, reads, inferred, written, calls, returned,
    encoder_calls, result, result_set, exc, ui, events>>

(* --------------------------- pure functions --------------------------- *)
\* a render_upload_section that returns the file whatever the button says
UploadIgnoringButton(f, btn) == f

\* render_upload_section: uploaded_video if process_btn else None
render_upload_section(f, btn) == IF btn THEN f ELSE "None"

\* collections.Counter(names)
Counter(names) ==
  [c \in Classes |-> Cardinality({i \in DOMAIN names : names[i] = c})]

\* the update that overwrites the totals by the frame's counts
CounterAssign(s, counts) == [c \in Classes |-> counts[c]]

\* Counter.update(counts)
CounterUpdate(s, counts) == [c \in Classes |-> s[c] + counts[c]]

EmptyCounter == [c \in Classes |-> 0]

\* model(frame, ...)[0].boxes.cls: the boxes the model finds on the frame
Detect(f) == f.cls

\* results[0].plot(): the frame with its boxes drawn
Plot(f, boxes) == [pos |-> f.pos, cls |-> f.cls, drawn |-> boxes]

\* progress = current / total if total > 0 else 0; progress_bar.progress
\* accepts a float in [0.0, 1.0] and raises StreamlitAPIException otherwise
ProgressAccepted(current, total) ==
  IF total > 0 THEN 0 <= current /\ current <= total ELSE TRUE

\* an except clause that catches only OSError and its subclasses
CatchesOnlyOSError(e) == e \in {"OSError", "FileNotFoundError"}

\* except Exception
Catches(e) == e \in ExceptionTypes

\* the loop body with the frame written before progress is reported
WriteBeforeProgress(step) ==
  CASE step = "read" -> "infer"
    [] step = "infer" -> "aggregate"
    [] step = "aggregate" -> "write"
    [] step = "write" -> "progress"
    [] step = "progress" -> "read"

\* the statement order of the loop body
NextStep(step) ==
  CASE step = "read" -> "infer"
    [] step = "infer" -> "aggregate"
    [] step = "aggregate" -> "progress"
    [] step = "progress" -> "write"
    [] step = "write" -> "read"

Log(op, k) == Append(events, <<op, k>>)

(* ------------------------------- Init --------------------------------- *)
Init ==
  /\ pc = "idle"
  /\ runs = 0
  /\ file = "None"
  /\ process_btn = FALSE
  /\ uploaded_video = "None"
  /\ files = [p \in AllPaths |-> {}]
  /\ uid = 0
  /\ input_path = NoPath
  /\ temp_path = NoPath
  /\ final_path = NoPath
  /\ stats = EmptyCounter
  /\ cap_open = FALSE
  /\ out_open = FALSE
  /\ total_frames = 0
  /\ frame_id = 0
  /\ ret = FALSE
  /\ frame = NoFrame
  /\ results = <<>>
  /\ reads = <<>>
  /\ inferred = <<>>
  /\ written = <<>>
  /\ calls = <<>>
  /\ returned = FALSE
  /\ encoder_calls = 0
  /\ result = [input |-> NoPath, output |-> NoPath, stats |-> EmptyCounter]
  /\ result_set = FALSE
  /\ exc = "None"
  /\ ui = NoUi
  /\ events = <<>>

(* ------------------------------ actions ------------------------------- *)
\* main, lines 751-775: a script run starts with fresh locals, renders the
\* page and decides whether to process
ScriptRun ==
  /\ pc = "idle"
  /\ runs < MaxRuns
  /\ \E f \in {"None", "video"}, btn \in BOOLEAN :
       /\ file' = f
       /\ process_btn' = btn
       /\ uploaded_video' = render_upload_section(f, btn)
       /\ pc' = IF uploaded_video' # "None" THEN "save" ELSE "footer"
  /\ runs' = runs + 1
  /\ uid' = 0
  /\ input_path' = NoPath
  /\ temp_path' = NoPath
  /\ final_path' = NoPath
  /\ stats' = EmptyCounter
  /\ cap_open' = FALSE
  /\ out_open' = FALSE
  /\ total_frames' = 0
  /\ frame_id' = 0
  /\ ret' = FALSE
  /\ frame' = NoFrame
  /\ results' = <<>>
  /\ reads' = <<>>
  /\ inferred' = <<>>
  /\ written' = <<>>
  /\ calls' = <<>>
  /\ returned' = FALSE
  /\ encoder_calls' = 0
  /\ result' = [input |-> NoPath, output |-> NoPath, stats |-> EmptyCounter]
  /\ result_set' = FALSE
  /\ exc' = "None"
  /\ ui' = NoUi
  /\ events' = <<>>
  /\ UNCHANGED files

\* process_uploaded_video, lines 716-722: a fresh uid, the three paths, and
\* save_uploaded_file, whose open() can fail
Save ==
  /\ pc = "save"
  /\ uid' = runs
  /\ input_path' = InputPathOf(uid')
  /\ temp_path' = TempPathOf(uid')
  /\ final_path' = FinalPathOf(uid')
  /\ events' = Log("save", 0)
  /\ \E ok \in BOOLEAN :
       IF ok
         THEN /\ files' = [files EXCEPT ![input_path'] = @ \cup {"save_uploaded_file"}]
              /\ pc' = "open"
              /\ exc' = exc
         ELSE /\ files' = files
              /\ pc' = "except"
              /\ exc' = "OSError"
  /\ UNCHANGED <<runs, file, process_btn, uploaded_video, stats, cap_open,
                 out_open, total_frames, frame_id, ret, frame, results, reads,
                 inferred, written, calls, returned, encoder_calls, result,
                 result_set, ui>>

\* process_video_with_yolo, lines 635-648: the Counter, the capture, the
\* properties of the container and the writer of the temp file
Open ==
  /\ pc = "open"
  /\ stats' = EmptyCounter
  /\ cap_open' = TRUE
  /\ \E t \in ReportedTotals : total_frames' = t
  /\ out_open' = TRUE
  /\ files' = [files EXCEPT ![temp_path] = @ \cup {"VideoWriter"}]
  /\ frame_id' = 0
  /\ events' = Log("detect", 0)
  /\ pc' = "read"
  /\ UNCHANGED <<runs, file, process_btn, uploaded_video, uid, input_path,
                 temp_path, final_path, ret, frame, results, reads, inferred,
                 written, calls, returned, encoder_calls, result, result_set,
                 exc, ui>>

\* lines 651-655: cap.read() returns the next frame, and frame_id counts it
ReadFrame ==
  /\ pc = "read"
  /\ Len(reads) < MaxFrames
  /\ \E b \in BoxSeqs : frame' = [pos |-> Len(reads) + 1, cls |-> b]
  /\ ret' = TRUE
  /\ reads' = Append(reads, frame')
  /\ frame_id' = frame_id + 1
  /\ events' = Log("read", frame_id')
  /\ pc' = NextStep("read")
  /\ UNCHANGED <<runs, file, process_btn, uploaded_video, files, uid,
                 input_path, temp_path, final_path, stats, cap_open, out_open,
                 total_frames, results, inferred, written, calls, returned,
                 encoder_calls, result, result_set, exc, ui>>

\* lines 651-653: cap.read() fails and the loop breaks
ReadFails ==
  /\ pc = "read"
  /\ ret' = FALSE
  /\ frame' = NoFrame
  /\ pc' = "release"
  /\ UNCHANGED <<runs, file, process_btn, uploaded_video, files, uid,
                 input_path, temp_path, final_path, stats, cap_open, out_open,
                 total_frames, frame_id, results, reads, inferred, written,
                 calls, returned, encoder_calls, result, result_set, exc, ui,
                 events>>

\* line 658: results = model(frame, ...)
Infer ==
  /\ pc = "infer"
  /\ results' = Detect(frame)
  /\ inferred' = Append(inferred, frame)
  /\ events' = Log("infer", frame_id)
  /\ pc' = NextStep("infer")
  /\ UNCHANGED <<runs, file, process_btn, uploaded_video, files, uid,
                 input_path, temp_path, final_path, stats, cap_open, out_open,
                 total_frames, frame_id, ret, frame, reads, written, calls,
                 returned, encoder_calls, result, result_set, exc, ui>>

\* lines 661-666: the per-class counts of the frame go into stats
Aggregate ==
  /\ pc = "aggregate"
  /\ stats' =
       IF Len(results) > 0
         THEN CounterUpdate(stats, Counter([i \in DOMAIN results |-> model_names[results[i]]]))
         ELSE stats
  /\ events' = Log("aggregate", frame_id)
  /\ pc' = NextStep("aggregate")
  /\ UNCHANGED <<runs, file, process_btn, uploaded_video, files, uid,
                 input_path, temp_path, final_path, cap_open, out_open,
                 total_frames, frame_id, ret, frame, results, reads, inferred,
                 written, calls, returned, encoder_calls, result, result_set,
                 exc, ui>>

\* the progress step without its guard on total_frames
ProgressUnguarded ==
  /\ pc = "progress"
  /\ calls' = Append(calls, <<frame_id, total_frames>>)
  /\ events' = Log("progress", frame_id)
  /\ pc' = NextStep("progress")
  /\ UNCHANGED <<runs, file, process_btn, uploaded_video, files, uid,
                 input_path, temp_path, final_path, stats, cap_open, out_open,
                 total_frames, frame_id, ret, frame, results, reads, inferred,
                 written, returned, encoder_calls, result, result_set, exc, ui>>

\* lines 669-670 with update_progress, lines 728-731: the callback is called
\* when total_frames > 0, and raises when its progress value is out of range
Progress ==
  /\ pc = "progress"
  /\ IF total_frames > 0
       THEN /\ calls' = Append(calls, <<frame_id, total_frames>>)
            /\ events' = Log("progress", frame_id)
            /\ IF ProgressAccepted(frame_id, total_frames)
                 THEN pc' = NextStep("progress") /\ exc' = exc
                 ELSE pc' = "except" /\ exc' = "StreamlitAPIException"
       ELSE /\ calls' = calls
            /\ events' = events
            /\ pc' = NextStep("progress")
            /\ exc' = exc
  /\ UNCHANGED <<runs, file, process_btn, uploaded_video, files, uid,
                 input_path, temp_path, final_path, stats, cap_open, out_open,
                 total_frames, frame_id, ret, frame, results, reads, inferred,
                 written, returned, encoder_calls, result, result_set, ui>>

\* the write step that skips a frame without boxes
WriteOnlyDetections ==
  /\ pc = "write"
  /\ written' = IF Len(results) > 0 THEN Append(written, Plot(frame, results)) ELSE written
  /\ files' = [files EXCEPT ![temp_path] = @ \cup {"VideoWriter"}]
  /\ events' = Log("write", frame_id)
  /\ pc' = NextStep("write")
  /\ UNCHANGED <<runs, file, process_btn, uploaded_video, uid, input_path,
                 temp_path, final_path, stats, cap_open, out_open,
                 total_frames, frame_id, ret, frame, results, reads, inferred,
                 calls, returned, encoder_calls, result, result_set, exc, ui>>

\* lines 673-674: the annotated frame is written to the temp file
Write ==
  /\ pc = "write"
  /\ written' = Append(written, Plot(frame, results))
  /\ files' = [files EXCEPT ![temp_path] = @ \cup {"VideoWriter"}]
  /\ events' = Log("write", frame_id)
  /\ pc' = NextStep("write")
  /\ UNCHANGED <<runs, file, process_btn, uploaded_video, uid, input_path,
                 temp_path, final_path, stats, cap_open, out_open,
                 total_frames, frame_id, ret, frame, results, reads, inferred,
                 calls, returned, encoder_calls, result, result_set, exc, ui>>

\* the end of the function that forgets out.release()
ReleaseCaptureOnly ==
  /\ pc = "release"
  /\ cap_open' = FALSE
  /\ out_open' = out_open
  /\ returned' = TRUE
  /\ pc' = "encode"
  /\ UNCHANGED <<runs, file, process_btn, uploaded_video, files, uid,
                 input_path, temp_path, final_path, stats, total_frames,
                 frame_id, ret, frame, results, reads, inferred, written,
                 calls, encoder_calls, result, result_set, exc, ui, events>>

\* lines 676-680: cap.release(), out.release(), return stats
Release ==
  /\ pc = "release"
  /\ cap_open' = FALSE
  /\ out_open' = FALSE
  /\ returned' = TRUE
  /\ pc' = "encode"
  /\ UNCHANGED <<runs, file, process_btn, uploaded_video, files, uid,
                 input_path, temp_path, final_path, stats, total_frames,
                 frame_id, ret, frame, results, reads, inferred, written,
                 calls, encoder_calls, result, result_set, exc, ui, events>>

\* encode_to_h264, lines 690-703: get_ffmpeg_exe raises when there is no
\* executable; subprocess.run is called without check, so a failing ffmpeg
\* raises nothing and leaves no final file
Encode ==
  /\ pc = "encode"
  /\ \E outcome \in {"ok", "nonzero_exit", "no_exe"} :
       /\ encoder_calls' = IF outcome = "no_exe" THEN encoder_calls ELSE encoder_calls + 1
       /\ events' = IF outcome = "no_exe" THEN events ELSE Log("encode", 0)
       /\ files' =
            IF outcome = "ok"
              THEN [files EXCEPT ![final_path] = @ \cup {"ffmpeg"}]
              ELSE files
       /\ pc' = IF outcome = "no_exe" THEN "except" ELSE "return"
       /\ exc' = IF outcome = "no_exe" THEN "RuntimeError" ELSE exc
  /\ UNCHANGED <<runs, file, process_btn, uploaded_video, uid, input_path,
                 temp_path, final_path, stats, cap_open, out_open,
                 total_frames, frame_id, ret, frame, results, reads, inferred,
                 written, calls, returned, result, result_set, ui>>

\* line 748: return str(input_path), str(final_path), stats
Return ==
  /\ pc = "return"
  /\ result' = [input |-> input_path, output |-> final_path, stats |-> stats]
  /\ result_set' = TRUE
  /\ events' = Log("return", 0)
  /\ pc' = "display"
  /\ UNCHANGED <<runs, file, process_btn, uploaded_video, files, uid,
                 input_path, temp_path, final_path, stats, cap_open, out_open,
                 total_frames, frame_id, ret, frame, results, reads, inferred,
                 written, calls, returned, encoder_calls, exc, ui>>

\* main, lines 777-800: the success message, the two videos, and the
\* download button, whose open(output_path) fails when ffmpeg left no file
Display ==
  /\ pc = "display"
  /\ IF files[result.output] # {}
       THEN /\ ui' = [ui EXCEPT !.success = TRUE, !.original = result.input,
                                !.processed = result.output,
                                !.download = result.output]
            /\ pc' = "footer"
            /\ exc' = exc
       ELSE /\ ui' = [ui EXCEPT !.success = TRUE, !.original = result.input,
                                !.processed = result.output]
            /\ pc' = "except"
            /\ exc' = "FileNotFoundError"
  /\ UNCHANGED <<runs, file, process_btn, uploaded_video, files, uid,
                 input_path, temp_path, final_path, stats, cap_open, out_open,
                 total_frames, frame_id, ret, frame, results, reads, inferred,
                 written, calls, returned, encoder_calls, result, result_set,
                 events>>

\* main, lines 802-804: except Exception shows the error
Except ==
  /\ pc = "except"
  /\ IF Catches(exc)
       THEN ui' = [ui EXCEPT !.error = TRUE] /\ pc' = "footer"
       ELSE ui' = ui /\ pc' = "crashed"
  /\ UNCHANGED <<runs, file, process_btn, uploaded_video, files, uid,
                 input_path, temp_path, final_path, stats, cap_open, out_open,
                 total_frames, frame_id, ret, frame, results, reads, inferred,
                 written, calls, returned, encoder_calls, result, result_set,
                 exc, events>>

\* main, line 807: render_footer(), and the script run ends
Footer ==
  /\ pc = "footer"
  /\ ui' = [ui EXCEPT !.footer = TRUE]
  /\ pc' = "idle"
  /\ UNCHANGED <<runs, file, process_btn, uploaded_video, files, uid,
                 input_path, temp_path, final_path, stats, cap_open, out_open,
                 total_frames, frame_id, ret, frame, results, reads, inferred,
                 written, calls, returned, encoder_calls, result, result_set,
                 exc, events>>

Next ==
  \/ ScriptRun
  \/ Save
  \/ Open
  \/ ReadFrame
  \/ ReadFails
  \/ Infer
  \/ Aggregate
  \/ Progress
  \/ Write
  \/ Release
  \/ Encode
  \/ Return
  \/ Display
  \/ Except
  \/ Footer

Spec == Init /\ [][Next]_vars

(* --------------------------- claim helpers ---------------------------- *)
InLoop == pc \in {"read", "infer", "aggregate", "progress", "write"}

IsPrefix(s, t) == Len(s) <= Len(t) /\ \A i \in 1..Len(s) : s[i] = t[i]

IsStage(e) == e[1] \in {"save", "detect", "encode", "return"}

\* the stages of the run so far, in order
Stages ==
  LET s == SelectSeq(events, IsStage) IN [i \in 1..Len(s) |-> s[i][1]]

\* process_video_with_yolo has been entered in this run
Started == \E i \in 1..Len(events) : events[i][1] = "detect"

IsFrameEvent(e) == e[2] > 0

\* the log restricted to the per-frame operations is, frame after frame, the
\* sequence `expected`: the i-th entry is the next step of the next frame
FrameLogFollows(expected) ==
  LET fe == SelectSeq(events, IsFrameEvent)
      n == Len(expected)
  IN  /\ \A i \in 1..Len(fe) :
           fe[i] = <<expected[((i - 1) % n) + 1], ((i - 1) \div n) + 1>>
      /\ Len(fe) <= n * frame_id
      /\ frame_id > 0 => Len(fe) > n * (frame_id - 1)

\* the frames whose counts have gone into stats
Aggregated == Cardinality({i \in 1..Len(events) : events[i][1] = "aggregate"})

\* the boxes of class c on frame f
CountOf(f, c) == Cardinality({i \in DOMAIN f.cls : model_names[f.cls[i]] = c})

RECURSIVE SumBoxes(_, _, _)
\* the boxes of class c on the first n frames of fs
SumBoxes(fs, c, n) ==
  IF n = 0 THEN 0 ELSE SumBoxes(fs, c, n - 1) + CountOf(fs[n], c)

(* ------------------------------- claims ------------------------------- *)
\* C1: every frame the decoder returns is passed to the model once and
\* written once, annotated, in the order read; when process_video_with_yolo
\* has returned, the frames written are as many as the successful reads
\* (frame_id).
C1_EveryFrameOnce ==
  /\ Len(reads) = frame_id
  /\ \A i \in 1..Len(reads) : reads[i].pos = i
  /\ Len(written) <= Len(inferred)
  /\ Len(inferred) <= Len(reads)
  /\ Len(reads) - Len(written) <= 1
  /\ \A i \in 1..Len(inferred) : inferred[i] = reads[i]
  /\ \A i \in 1..Len(written) : written[i] = Plot(reads[i], Detect(reads[i]))
  /\ returned => Len(written) = frame_id /\ Len(inferred) = frame_id

C1_Witness == returned /\ frame_id >= 2 /\ Len(written) = frame_id

\* C2 as stated: the stages run in the order save, detection, encoder,
\* return; the encoder runs only after the loop has ended and capture and
\* writer are released; and every run invokes the encoder exactly once.
C2_Original ==
  /\ IsPrefix(Stages, <<"save", "detect", "encode", "return">>)
  /\ encoder_calls > 0 => returned /\ ~cap_open /\ ~out_open
  /\ encoder_calls <= 1
  /\ (uploaded_video # "None" /\ pc \in {"footer", "idle"}) => encoder_calls = 1

\* C2 as amended: the same order and release conditions; the encoder is
\* invoked at most once in any run, and exactly once in every run in which
\* process_uploaded_video returns its result.
C2_StagesInOrder ==
  /\ IsPrefix(Stages, <<"save", "detect", "encode", "return">>)
  /\ encoder_calls > 0 => returned /\ ~cap_open /\ ~out_open
  /\ encoder_calls <= 1
  /\ result_set => encoder_calls = 1 /\ Stages = <<"save", "detect", "encode", "return">>

C2_Witness == result_set /\ encoder_calls = 1 /\ frame_id >= 1

\* C3 as stated: for every frame the steps are read, inference, aggregation,
\* write, then progress.
C3_Original ==
  FrameLogFollows(IF total_frames > 0
                    THEN <<"read", "infer", "aggregate", "write", "progress">>
                    ELSE <<"read", "infer", "aggregate", "write">>)

\* C3 as amended: for every frame the steps are read, inference,
\* aggregation, progress report (when the reported frame count is
\* positive), then write; progress for frame k is reported before frame k
\* is written, and a frame's steps are over before the next frame is read.
C3_ProgressBeforeWrite ==
  FrameLogFollows(IF total_frames > 0
                    THEN <<"read", "infer", "aggregate", "progress", "write">>
                    ELSE <<"read", "infer", "aggregate", "write">>)

C3_Witness ==
  /\ total_frames > 0
  /\ frame_id >= 2
  /\ Len(written) = 2
  /\ events[Len(events)] = <<"write", 2>>
  /\ events[Len(events) - 1] = <<"progress", 2>>

\* C4: stats holds for every class the sum, over the frames processed so
\* far, of the boxes of that class; what the function returns is the sum
\* over all frames read; a frame without boxes leaves stats unchanged and
\* no total ever decreases inside the loop.
C4_StatsInvariant ==
  /\ \A c \in Classes : stats[c] = SumBoxes(inferred, c, Aggregated)
  /\ returned => \A c \in Classes : stats[c] = SumBoxes(reads, c, Len(reads))
  /\ result_set => \A c \in Classes : result.stats[c] = SumBoxes(reads, c, Len(reads))

C4_StatsStep ==
  /\ InLoop => \A c \in Classes : stats'[c] >= stats[c]
  /\ (pc = "aggregate" /\ Len(results) = 0) => stats' = stats

C4_StatsAreSums == []C4_StatsInvariant /\ [][C4_StatsStep]_vars

C4_Witness ==
  /\ returned
  /\ \E c \in Classes : stats[c] >= 2
  /\ \E i \in 1..Len(reads) : Len(reads[i].cls) = 0
  /\ \E i \in 1..Len(reads) : Len(reads[i].cls) = 2

\* C5: render_upload_section yields a file only when a file is in the
\* uploader and the button was clicked; in every other script run nothing
\* of the pipeline happens: no save, no inference, no write, no encoder.
C5_StartsOnlyOnFileAndClick ==
  runs > 0 =>
    /\ uploaded_video # "None" <=> (file # "None" /\ process_btn)
    /\ ~(file # "None" /\ process_btn) =>
         /\ events = <<>>
         /\ inferred = <<>>
         /\ written = <<>>
         /\ encoder_calls = 0
         /\ uid = 0
         /\ pc \in {"footer", "idle"}

C5_Witness == runs > 0 /\ file = "video" /\ ~process_btn /\ pc = "idle" /\ ui.footer

\* C6: the three paths of a run are pairwise distinct; the upload is written
\* by save_uploaded_file only, the temp file by the VideoWriter only, the
\* final file by the encoder only; the video shown as original is the saved
\* upload, the one shown as processed and offered for download is the final
\* file.
C6_OriginalUntouched ==
  uid # 0 =>
    /\ input_path # temp_path /\ input_path # final_path /\ temp_path # final_path
    /\ files[input_path] \subseteq {"save_uploaded_file"}
    /\ files[temp_path] \subseteq {"VideoWriter"}
    /\ files[final_path] \subseteq {"ffmpeg"}
    /\ Started => files[input_path] = {"save_uploaded_file"}
    /\ ui.original \in {NoPath, input_path}
    /\ ui.processed \in {NoPath, final_path}
    /\ ui.download \in {NoPath, final_path}
    /\ ui.success => ui.original = input_path /\ ui.processed = final_path

C6_Witness ==
  /\ ui.download # NoPath
  /\ ui.original = input_path
  /\ Len(written) >= 1
  /\ files[final_path] = {"ffmpeg"}

\* C7 as stated: the detection loop is left only by a failed read, with
\* every frame read also written, and a run that entered
\* process_video_with_yolo sees it return.
C7_LoopEndsAtFailedRead ==
  /\ (Started /\ ~InLoop) => ret = FALSE /\ Len(written) = Len(reads)
  /\ (Started /\ pc \in {"footer", "idle"}) => returned

C9_ProgressCalls ==
  /\ Len(calls) <= frame_id
  /\ \A i \in 1..Len(calls) : calls[i] = <<i, total_frames>>
  /\ (Started /\ total_frames <= 0) =>
       /\ calls = <<>>
       /\ exc # "StreamlitAPIException"
       /\ returned => Len(written) = Len(reads) /\ Len(inferred) = Len(reads)

C9_Witness == returned /\ Len(calls) >= 2 /\ total_frames > 0

====
